---- MODULE Spec2Model ----
(***************************************************************************)
(* Credential and session subsystem of legacy-app-secure (models.py,       *)
(* utils.py): the users and sessions tables, the Session and User objects  *)
(* callers hold, the wall clock, and one or two callers running the public *)
(* operations.  A caller's operation that writes is two steps: the part    *)
(* before the SQL statement (object construction, clock read, token draw)  *)
(* and the statement with its commit, which is where the storage layer     *)
(* serialises concurrent callers.                                          *)
(***************************************************************************)
EXTENDS Integers, Sequences, FiniteSets, TLC

VARIABLES
    now,        \* datetime.now(), in clock ticks
    dbUp,       \* FALSE while the storage layer raises sqlite3.Error
    collide,    \* TRUE when the random source may repeat a token
    conns,      \* storage connections that are open and not in use
    sessions,   \* rows of table sessions
    users,      \* rows of table users
    sessSeq,    \* largest rowid ever used in sessions
    userSeq,    \* largest rowid ever used in users
    drawn,      \* tokens generate_token has returned so far
    held,       \* Session objects returned to callers
    call,       \* per caller: the operation in flight
    ret,        \* per caller: the outcome of its last finished operation
    revoked,    \* history: Session objects for which revoke returned True
    issued,     \* history: the sessions create has persisted, with their hours
    registered, \* history: the accounts save has persisted, as they were saved
    race        \* history: the latest pair of overlapping saves of one username

envVars  == <<dbUp, collide, conns>>
sessVars == <<sessions, sessSeq, drawn, held, revoked, issued>>
userVars == <<users, userSeq, registered, race>>
vars     == <<now, envVars, sessVars, userVars, call, ret>>

-----------------------------------------------------------------------------
(* Bounds of the model *)

TicksPerSec == 2      \* clock resolution: ticks in one second
MaxTicks    == 2      \* clock advances in one behaviour
NumTokens   == 2      \* distinct values of the random source
MaxRowId    == 2      \* largest rowid a table reaches
MaxConns    == 2      \* connections left open at one time

HourTicks == TicksPerSec               \* scale: an hour is modelled as one second
Epoch     == HourTicks               \* the clock's first reading
Hours     == {-1, 0, 1}              \* expiration_hours: negative, zero, positive
Tokens    == {<<i>> : i \in 1 .. NumTokens}
EmptyStr  == <<>>                    \* "" as a token or a hash
UserIdArgs == {0, 1}                 \* user_id: 0 is not a valid identifier

-----------------------------------------------------------------------------
(* Program constants *)

None_id        == 0     \* id=None: "not self.id" holds for None and for 0
MaxUsernameLen == 50
MaxEmailLen    == 100
MinPasswordLen == 8
MaxPasswordLen == 200
DefaultHours   == 24    \* expiration_hours when the caller gives none
MinTokenBytes  == 16
MaxTokenBytes  == 128
MaxActionLen   == 100   \* longest action log_activity records
RetryTotal     == 3     \* Retry(total=3): retries send_email allows
MinTldLen      == 2     \* letters after the last dot of an email address

LongName  == "xxxxxxxxxxxxxxxxxxxxxxxxxxxxxxxxxxxxxxxxxxxxxxxxxxx"   \* 51 characters
LongPassword == "ppppppppppppppppppppppppppppppppppppppppppppppppppppppppppppppppppppppppppppppppppppppppppppppppppppppppppppppppppppppppppppppppppppppppppppppppppppppppppppppppppppppppppppppppppppppppppppppppppppppppp"   \* 201 characters
LongEmail == "eeeeeeeeeeeeeeeeeeeeeeeeeeeeeeeeeeeeeeeeeeeeeeeeeeeeeeeeeeeeeeeeeeeeeeeeeeeeeeeeeeeeeeeeeeeeeee@x.com"   \* 101 characters
Action100 == "aaaaaaaaaaaaaaaaaaaaaaaaaaaaaaaaaaaaaaaaaaaaaaaaaaaaaaaaaaaaaaaaaaaaaaaaaaaaaaaaaaaaaaaaaaaaaaaaaaaa"   \* 100 characters
Usernames == {"", "alice", "bob", LongName}
Salts     == {1}

\* (username, email, password) of the accounts callers try to create: valid
\* ones that share a username or an email, and one that fails each check.
NewUserArgs ==
    {<<"alice", "alice@x.com", "Sup3rSecret!">>,
     <<"alice", "bob@x.com",   "Sup3rSecret!">>,
     <<"bob",   "bob@x.com",   "Sup3rSecret!">>,
     <<"bob",   "alice@x.com", "Sup3rSecret!">>,
     <<"",      "alice@x.com", "Sup3rSecret!">>,
     <<LongName, "alice@x.com", "Sup3rSecret!">>,
     <<"alice", "",            "Sup3rSecret!">>,
     <<"alice", LongEmail,     "Sup3rSecret!">>,
     <<"alice", "alice@x.com", "short">>}

\* Candidate and new passwords: empty, too short, two valid ones, too long.
Passwords == {"", "short", "Sup3rSecret!", "N3wSecret456!", LongPassword}

\* Arguments as a caller may pass them: a str, an int or None.
PyStr(s) == [t |-> "str", v |-> s]
PyInt(i) == [t |-> "int", v |-> i]
PyNone  == [t |-> "NoneType"]

UsernameArgs == {PyNone} \cup {PyStr(u) : u \in Usernames}
IdArgs       == {PyNone, PyStr("1"), PyInt(-1), PyInt(0), PyInt(1), PyInt(2)}

-----------------------------------------------------------------------------
(* datetime <-> TEXT.  sqlite3 binds a datetime as isoformat(" "): seconds,  *)
(* and a fraction only when it is not zero.  A text is <<sec>> or           *)
(* <<sec, frac>>; SQLite compares texts bytewise, a proper prefix first.    *)

adapt_datetime(t) ==
    IF t % TicksPerSec = 0 THEN <<t \div TicksPerSec>>
                           ELSE <<t \div TicksPerSec, t % TicksPerSec>>

fromisoformat(x) ==
    x[1] * TicksPerSec + (IF Len(x) > 1 THEN x[2] ELSE 0)

TextLess(a, b) ==
    \/ a[1] < b[1]
    \/ /\ a[1] = b[1]
       /\ \/ Len(a) < Len(b)
          \/ Len(a) = 2 /\ Len(b) = 2 /\ a[2] < b[2]

\* timedelta(days=expiration_hours) in place of hours
timedelta_days(h) == h * 24 * HourTicks

\* timedelta(hours=expiration_hours or 24): zero taken for the default
timedelta_hours_or_default(h) == IF h = 0 THEN 24 * HourTicks ELSE h * HourTicks

timedelta_hours(h) == h * HourTicks

-----------------------------------------------------------------------------
(* Storage layer *)

Max(S) == IF S = {} THEN 0 ELSE CHOOSE m \in S : \A k \in S : k <= m
Min(S) == CHOOSE m \in S : \A k \in S : m <= k

\* cursor.lastrowid: one more than the largest rowid in the table, or, with
\* AUTOINCREMENT, one more than the largest rowid the table ever held.
\* The schema decides which; it is not part of the sources.
lastrowid(tbl, seq) == {Max({r.id : r \in tbl}) + 1, seq + 1}

\* fetchone(): the first matching row in rowid order, if any.
fetchone(rows) ==
    IF rows = {} THEN {} ELSE {CHOOSE r \in rows : r.id = Min({q.id : q \in rows})}

\* UNIQUE(token) of table sessions.
SessionsIntegrityError(tbl, row) == \E r \in tbl : r.token = row.token

\* UNIQUE(username), UNIQUE(email) of table users.
UsersIntegrityError(tbl, row) ==
    \E r \in tbl : r.username = row.username \/ r.email = row.email

-----------------------------------------------------------------------------
(* utils.py *)

\* hash_password that stores the password as it is
hash_password_plain(password, salt) == <<password>>

\* ph.hash(password): an Argon2 hash text holds the algorithm, the salt and
\* the digest, which stands for the password it was computed from.
hash_password(password, salt) == <<"$argon2id", salt, password>>

\* hash_password raises ValueError for an empty or an oversized password.
hash_password_raises(password) ==
    password = "" \/ Len(password) > MaxPasswordLen

\* A text that did not come from the hasher, as a password_hash.
RawHash(text) == IF text = "" THEN EmptyStr ELSE <<text>>

\* ph.verify accepts everything
verify_password_any(password_hash, password) ==
    ~(password_hash = EmptyStr \/ password = "")

\* verify_password: False for an empty side; ph.verify raises InvalidHash for
\* a text that is not an Argon2 hash and VerifyMismatchError for another
\* password, and both end in return False.
verify_password(password_hash, password) ==
    IF password_hash = EmptyStr \/ password = "" THEN FALSE
    ELSE IF Len(password_hash) # 3 THEN FALSE
    ELSE IF password_hash[1] # "$argon2id" THEN FALSE
    ELSE password_hash[3] = password

\* generate_token(32): any value of the random source.  Tokens are opaque,
\* only their equality is observed: a source that never repeats is modelled
\* by the first value not drawn before.
generate_token ==
    IF collide THEN Tokens
    ELSE {t \in Tokens \ drawn : \A u \in Tokens \ drawn : t[1] <= u[1]}

\* generate_token without the lower limit
token_nbytes_no_floor(length) ==
    IF length > MaxTokenBytes THEN MaxTokenBytes ELSE length

\* generate_token(length): the number of bytes asked of
\* secrets.token_urlsafe.
token_nbytes(length) ==
    LET floored == IF length < MinTokenBytes THEN MinTokenBytes ELSE length
    IN  IF floored > MaxTokenBytes THEN MaxTokenBytes ELSE floored

\* Characters are code points.  NUL, a control character, tab, space, "a".
Chars == {0, 1, 9, 32, 97}

\* Control characters that sanitize_input removes: 0..31 and 127, except
\* newline, carriage return and tab.
KeptChar(c) == c \in {9, 10, 13} \/ ~((0 <= c /\ c <= 31) \/ c = 127)

NotNul(c) == c # 0

\* str.split() separators that can be left after the filter.
IsSpace(c) == c \in {9, 10, 13, 32}

\* ' '.join(x.split()): words separated by one space, none at the ends.
RECURSIVE JoinSplit(_, _, _)
JoinSplit(x, out, gap) ==
    IF x = <<>> THEN out
    ELSE IF IsSpace(Head(x)) THEN JoinSplit(Tail(x), out, out # <<>>)
    ELSE JoinSplit(Tail(x),
                   IF gap THEN out \o <<32, Head(x)>> ELSE Append(out, Head(x)),
                   FALSE)

\* x[:n] of Python
Slice(x, n) ==
    IF n >= 0 THEN SubSeq(x, 1, IF n < Len(x) THEN n ELSE Len(x))
    ELSE SubSeq(x, 1, Len(x) + n)

sanitize_input(user_input, max_length) ==
    IF user_input = <<>> THEN <<>>
    ELSE LET no_nul     == SelectSeq(user_input, NotNul)
             no_control == SelectSeq(no_nul, KeptChar)
             normalized == JoinSplit(no_control, <<>>, FALSE)
         IN  IF Len(normalized) > max_length
             THEN Slice(normalized, max_length)
             ELSE normalized

-----------------------------------------------------------------------------
(* Objects and outcomes *)

Session(id, user_id, token, created_at, expires_at) ==
    [id |-> id, user_id |-> user_id, token |-> token,
     created_at |-> created_at, expires_at |-> expires_at]

\* Session(): no id, no token, expires 24 hours after construction.
NewSession ==
    Session(None_id, 0, EmptyStr, now, now + timedelta_hours(DefaultHours))

User(id, username, password_hash, email, created_at) ==
    [id |-> id, username |-> username, password_hash |-> password_hash,
     email |-> email, created_at |-> created_at]

SessionOfRow(r) ==
    Session(r.id, r.user_id, r.token,
            fromisoformat(r.created_at), fromisoformat(r.expires_at))

UserOfRow(r) ==
    User(r.id, r.username, r.password_hash, r.email, fromisoformat(r.created_at))

Idle == [op |-> "idle"]

\* The outcome of a finished operation: ok is the bool result, or whether an
\* object was returned; raised, whether it raised ValueError; again, whether
\* the call repeats one that succeeded before (a revoke of a revoked object,
\* a save of a saved username, a create with a persisted token).
Outcome(op, ok, raised, again) ==
    [op |-> op, ok |-> ok, raised |-> raised, again |-> again]

NoOutcome == Outcome("none", FALSE, FALSE, FALSE)

\* No pair of overlapping saves has been seen.
NoRace == [username |-> "", free |-> FALSE, emails |-> {}, res |-> {}]

Procs == DOMAIN call

-----------------------------------------------------------------------------
(* Session *)

\* find_by_token with "expires_at >= ?" in place of "expires_at > ?"
find_by_token_ge(token) ==
    IF token = EmptyStr THEN {}
    ELSE IF ~dbUp THEN {}
    ELSE LET rows == {r \in sessions :
                        /\ r.token = token
                        /\ ~TextLess(r.expires_at, adapt_datetime(now))}
         IN  {SessionOfRow(r) : r \in fetchone(rows)}

\* SELECT ... WHERE token = ? AND expires_at > ?   with (token, datetime.now())
find_by_token(token) ==
    IF token = EmptyStr THEN {}
    ELSE IF ~dbUp THEN {}
    ELSE LET rows == {r \in sessions :
                        /\ r.token = token
                        /\ TextLess(adapt_datetime(now), r.expires_at)}
         IN  {SessionOfRow(r) : r \in fetchone(rows)}

\* is_valid with <= in place of <
is_valid_le(s) == now <= s.expires_at

is_valid(s) == now < s.expires_at

\* the DELETE without conn.commit(): rolled back when the connection closes
DeleteSession_no_commit(tbl, id) == tbl

\* DELETE FROM sessions WHERE id = ?
DeleteSession(tbl, id) == {r \in tbl : r.id # id}

\* INSERT OR IGNORE INTO sessions: a conflicting row is dropped without an
\* error
insert_or_ignore_session(tbl, row) ==
    [ok  |-> TRUE,
     tbl |-> IF SessionsIntegrityError(tbl, row) THEN tbl ELSE tbl \cup {row}]

\* INSERT INTO sessions ... ; conn.commit().  An IntegrityError is a
\* sqlite3.Error: the table stays as it was.
insert_session(tbl, row) ==
    IF SessionsIntegrityError(tbl, row)
    THEN [ok |-> FALSE, tbl |-> tbl]
    ELSE [ok |-> TRUE,  tbl |-> tbl \cup {row}]

revoke_result(s) == IF s.id = None_id THEN FALSE ELSE dbUp

\* Session.create up to the INSERT: the identifier check, the token, the
\* clock reading and the expiry.
Session_create_begin(p, user_id, expiration_hours, token) ==
    /\ call[p] = Idle
    /\ IF user_id <= 0
       THEN /\ ret' = [ret EXCEPT ![p] =
                         Outcome("create", FALSE, FALSE, FALSE)]
            /\ UNCHANGED <<call, drawn>>
       ELSE /\ token \in generate_token
            /\ drawn' = drawn \cup {token}
            /\ call' = [call EXCEPT ![p] =
                   [op |-> "create", user_id |-> user_id, token |-> token,
                    hours |-> expiration_hours, created_at |-> now,
                    expires_at |-> now + timedelta_hours(expiration_hours)]]
            /\ UNCHANGED ret
    /\ UNCHANGED <<now, envVars, userVars, sessions, sessSeq, held, revoked,
                   issued>>

\* The INSERT, the commit and the return of Session.create.
Session_create_insert(p, id) ==
    /\ call[p].op = "create"
    /\ id \in lastrowid(sessions, sessSeq)
    /\ LET c   == call[p]
           row == [id |-> id, user_id |-> c.user_id, token |-> c.token,
                   created_at |-> adapt_datetime(c.created_at),
                   expires_at |-> adapt_datetime(c.expires_at)]
           obj == Session(id, c.user_id, c.token, c.created_at, c.expires_at)
           dup == \E r \in sessions : r.token = c.token
           ins == insert_session(sessions, row)
       IN  IF ~dbUp \/ ~ins.ok
           THEN /\ ret' = [ret EXCEPT ![p] =
                             Outcome("create", FALSE, FALSE, dup)]
                /\ UNCHANGED <<sessions, sessSeq, held, issued>>
           ELSE /\ sessions' = ins.tbl
                /\ sessSeq' = IF id > sessSeq THEN id ELSE sessSeq
                /\ held' = held \cup {obj}
                /\ issued' = issued \cup {[obj |-> obj, hours |-> c.hours]}
                /\ ret' = [ret EXCEPT ![p] =
                             Outcome("create", TRUE, FALSE, FALSE)]
    /\ call' = [call EXCEPT ![p] = Idle]
    /\ UNCHANGED <<now, envVars, userVars, drawn, revoked>>

Session_find_by_token(p, token) ==
    /\ call[p] = Idle
    /\ LET found == find_by_token(token)
       IN  /\ ret' = [ret EXCEPT ![p] =
                        Outcome("find_by_token", found # {}, FALSE, FALSE)]
           /\ held' = held \cup found
    /\ UNCHANGED <<now, envVars, userVars, sessions, sessSeq, drawn, call,
                   revoked, issued>>

Session_is_valid(p, s) ==
    /\ call[p] = Idle
    /\ ret' = [ret EXCEPT ![p] =
                 Outcome("is_valid", is_valid(s), FALSE, FALSE)]
    /\ UNCHANGED <<now, envVars, userVars, sessVars, call>>

Session_revoke(p, s) ==
    /\ call[p] = Idle
    /\ LET ok == revoke_result(s)
       IN  /\ sessions' = IF ok THEN DeleteSession(sessions, s.id) ELSE sessions
           /\ revoked' = IF ok THEN revoked \cup {s} ELSE revoked
           /\ ret' = [ret EXCEPT ![p] =
                        Outcome("revoke", ok, FALSE, s \in revoked)]
    /\ UNCHANGED <<now, envVars, userVars, sessSeq, drawn, held, call,
                   issued>>

-----------------------------------------------------------------------------
(* User *)

\* INSERT OR REPLACE INTO users: the conflicting rows give way to the new one
insert_or_replace_user(tbl, row) ==
    [ok  |-> TRUE,
     tbl |-> {r \in tbl : r.username # row.username /\ r.email # row.email}
                 \cup {row}]

\* INSERT OR IGNORE INTO users: a conflicting row is dropped without an error
insert_or_ignore_user(tbl, row) ==
    [ok  |-> TRUE,
     tbl |-> IF UsersIntegrityError(tbl, row) THEN tbl ELSE tbl \cup {row}]

\* INSERT INTO users ... ; conn.commit().  An IntegrityError leaves the table
\* as it was.
insert_user(tbl, row) ==
    IF UsersIntegrityError(tbl, row)
    THEN [ok |-> FALSE, tbl |-> tbl]
    ELSE [ok |-> TRUE,  tbl |-> tbl \cup {row}]

\* set_password: the hash of a password of valid length; otherwise ValueError
\* and the hash stays as it was.
ValidPassword(pw) == Len(pw) >= MinPasswordLen /\ Len(pw) <= MaxPasswordLen

\* save without the email check
SaveValueError_no_email_check(u) ==
    \/ u.username = "" \/ Len(u.username) > MaxUsernameLen
    \/ u.password_hash = EmptyStr

\* The checks of save that raise ValueError.
SaveValueError(u) ==
    \/ u.username = "" \/ Len(u.username) > MaxUsernameLen
    \/ u.email = ""    \/ Len(u.email) > MaxEmailLen
    \/ u.password_hash = EmptyStr

\* SELECT ... FROM users WHERE username = ?
find_by_username(username) ==
    IF username = "" \/ Len(username) > MaxUsernameLen THEN {}
    ELSE IF ~dbUp THEN {}
    ELSE {UserOfRow(r) : r \in fetchone({q \in users : q.username = username})}

\* What the caller of save observes: "True", "False", or "ValueError"
\* raised.  IntegrityError, any other sqlite3.Error and any other exception
\* all end in return False.
save_result(u, tbl, row, up) ==
    IF SaveValueError(u) THEN "ValueError"
    ELSE IF ~up THEN "False"
    ELSE IF insert_user(tbl, row).ok THEN "True"
    ELSE "False"

\* The users row save binds for a User object.
UserRow(u, id) ==
    [id |-> id, username |-> u.username, password_hash |-> u.password_hash,
     email |-> u.email, created_at |-> adapt_datetime(u.created_at)]

\* check_password: False when either side is empty, else verify_password.
check_password(u, plain_password) ==
    IF u.password_hash = EmptyStr \/ plain_password = "" THEN FALSE
    ELSE verify_password(u.password_hash, plain_password)

\* SELECT ... FROM users WHERE id = ?
find_by_id(user_id) ==
    IF user_id <= 0 THEN {}
    ELSE IF ~dbUp THEN {}
    ELSE {UserOfRow(r) : r \in fetchone({q \in users : q.id = user_id})}

\* update_password that stores before it validates
update_password_result_unvalidated(u, new_password) ==
    IF u.id = None_id THEN FALSE ELSE dbUp

\* update_password: False without an id; set_password's ValueError is caught
\* and gives False; True once the UPDATE is committed, whatever it matched.
update_password_result(u, new_password) ==
    IF u.id = None_id THEN FALSE
    ELSE IF ~ValidPassword(new_password) THEN FALSE
    ELSE dbUp

\* The User object after update_password: set_password assigns
\* self.password_hash before the connection is opened, and no except branch
\* restores it.
update_password_self(u, new_password, salt) ==
    IF u.id = None_id THEN u
    ELSE IF ~ValidPassword(new_password) THEN u
    ELSE [u EXCEPT !.password_hash = hash_password(new_password, salt)]

\* UPDATE users SET password_hash = ? WHERE id = ?
UpdatePasswordHash(tbl, id, hash) ==
    {IF r.id = id THEN [r EXCEPT !.password_hash = hash] ELSE r : r \in tbl}

InFlightSave(q, username) ==
    call[q].op = "save" /\ call[q].user.username = username

\* User(username=, email=) and set_password(password): the object a caller
\* builds before it calls save.
User_new(p, username, email, password, salt) ==
    /\ call[p] = Idle
    /\ LET hash == IF ValidPassword(password)
                   THEN hash_password(password, salt) ELSE EmptyStr
           u    == User(None_id, username, hash, email, now)
           others == {q \in Procs \ {p} : InFlightSave(q, username)}
       IN  /\ call' = [call EXCEPT ![p] =
                          [op |-> "save", user |-> u, password |-> password]]
           /\ race' =
                IF others = {} THEN race
                ELSE [username |-> username,
                      free |-> /\ \A q \in others \cup {p} :
                                     ~SaveValueError(IF q = p THEN u
                                                     ELSE call[q].user)
                               /\ \A r \in users :
                                     /\ r.username # username
                                     /\ r.email # email
                                     /\ \A q \in others :
                                            r.email # call[q].user.email,
                      emails |-> {email} \cup {call[q].user.email : q \in others},
                      res |-> {}]
    /\ UNCHANGED <<now, envVars, sessVars, users, userSeq, registered, ret>>

\* User(username=, email=, password_hash=): the constructor takes the hash
\* field from its caller as it is.
User_init(p, username, email, text) ==
    /\ call[p] = Idle
    /\ call' = [call EXCEPT ![p] =
                  [op |-> "save",
                   user |-> User(None_id, username, RawHash(text), email, now)]]
    /\ UNCHANGED <<now, envVars, sessVars, userVars, ret>>

\* User.save: the checks, the INSERT with its commit, the result.
User_save(p, id) ==
    /\ call[p].op = "save"
    /\ id \in lastrowid(users, userSeq)
    /\ LET u    == call[p].user
           row  == UserRow(u, id)
           dup  == \E r \in users : r.username = u.username
           ins  == insert_user(users, row)
           res  == save_result(u, users, row, dbUp)
           ok   == res = "True"
           out  == Outcome("save", ok, res = "ValueError", dup)
       IN  /\ users' = IF ~SaveValueError(u) /\ dbUp THEN ins.tbl ELSE users
           /\ userSeq' = IF ok /\ id > userSeq THEN id ELSE userSeq
           /\ registered' = IF ok THEN registered \cup {[u EXCEPT !.id = id]}
                            ELSE registered
           /\ ret' = [ret EXCEPT ![p] = out]
           /\ race' = IF race.username = u.username /\ race.username # ""
                         /\ \A x \in race.res : x.p # p
                      THEN [race EXCEPT !.res = @ \cup
                              {[p |-> p, ok |-> ok, raised |-> out.raised]}]
                      ELSE race
    /\ call' = [call EXCEPT ![p] = Idle]
    /\ UNCHANGED <<now, envVars, sessVars>>

User_find_by_username(p, username) ==
    /\ call[p] = Idle
    /\ ret' = [ret EXCEPT ![p] =
                 Outcome("find_by_username", find_by_username(username) # {},
                         FALSE, FALSE)]
    /\ UNCHANGED <<now, envVars, sessVars, userVars, call>>

\* The User objects a caller can hold: read from the table, as they were
\* after save, and one never saved.
Accounts ==
    {UserOfRow(r) : r \in users} \cup registered
        \cup {User(None_id, "alice", EmptyStr, "alice@x.com", now)}

User_update_password(p, u, new_password, salt) ==
    /\ call[p] = Idle
    /\ LET ok == update_password_result(u, new_password)
       IN  /\ users' = IF ok
                       THEN UpdatePasswordHash(users, u.id,
                                hash_password(new_password, salt))
                       ELSE users
           /\ ret' = [ret EXCEPT ![p] =
                        [op |-> "update_password", ok |-> ok,
                         raised |-> FALSE, again |-> FALSE, user |-> u,
                         self |-> update_password_self(u, new_password, salt)]]
    /\ UNCHANGED <<now, envVars, sessVars, userSeq, registered, race, call>>

User_check_password(p, u, plain_password) ==
    /\ call[p] = Idle
    /\ ret' = [ret EXCEPT ![p] =
                 Outcome("check_password", check_password(u, plain_password),
                         FALSE, FALSE)]
    /\ UNCHANGED <<now, envVars, sessVars, userVars, call>>

\* The outcome of a lookup: what it found, whether it raised, whether it
\* sent a query.
Lookup(found, raised, queried) ==
    [found |-> found, raised |-> raised, queried |-> queried]

\* find_by_username for an argument of any type: "not username" and
\* len(username), the second also inside the log message of the rejection,
\* are evaluated outside the try block.
find_by_username_call(arg) ==
    IF arg.t = "str"
    THEN IF arg.v = "" \/ Len(arg.v) > MaxUsernameLen
         THEN Lookup({}, FALSE, FALSE)
         ELSE Lookup(find_by_username(arg.v), FALSE, TRUE)
    ELSE Lookup({}, TRUE, FALSE)

\* find_by_id for an argument of any type: isinstance(user_id, int) and
\* user_id > 0, or absent without a query.
find_by_id_call(arg) ==
    IF arg.t = "int" /\ arg.v > 0
    THEN Lookup(find_by_id(arg.v), FALSE, TRUE)
    ELSE Lookup({}, FALSE, FALSE)

Call_find_by_username(p, arg) ==
    /\ call[p] = Idle
    /\ LET r == find_by_username_call(arg)
       IN  ret' = [ret EXCEPT ![p] =
                     [op |-> "find_by_username", ok |-> r.found # {},
                      raised |-> r.raised, again |-> FALSE,
                      arg |-> arg, queried |-> r.queried]]
    /\ UNCHANGED <<now, envVars, sessVars, userVars, call>>

Call_find_by_id(p, arg) ==
    /\ call[p] = Idle
    /\ LET r == find_by_id_call(arg)
       IN  ret' = [ret EXCEPT ![p] =
                     [op |-> "find_by_id", ok |-> r.found # {},
                      raised |-> r.raised, again |-> FALSE,
                      arg |-> arg, queried |-> r.queried]]
    /\ UNCHANGED <<now, envVars, sessVars, userVars, call>>

-----------------------------------------------------------------------------
(* app.py *)

\* An HTTP response: the status code, the body's message, and the token of
\* a successful login.
Response(status, body, token) ==
    [status |-> status, body |-> body, token |-> token]

\* login answering "User not found" for an unknown username
login_user_not_found(username, password, token) ==
    IF username = "" \/ password = ""
    THEN Response(400, "Username and password required", EmptyStr)
    ELSE IF Len(username) > MaxEmailLen \/ Len(password) > MaxPasswordLen
    THEN Response(400, "Invalid input length", EmptyStr)
    ELSE IF ~dbUp THEN Response(500, "Database error occurred", EmptyStr)
    ELSE LET rows == fetchone({r \in users : r.username = username})
         IN  IF rows = {} THEN Response(404, "User not found", EmptyStr)
             ELSE IF \E r \in rows : verify_password(r.password_hash, password)
             THEN Response(200, "Login successful", token)
             ELSE Response(401, "Invalid credentials", EmptyStr)

\* The login handler for a JSON body with username and password ("" when
\* the field is missing); token is what secrets.token_urlsafe(32) returns.
login(username, password, token) ==
    IF username = "" \/ password = ""
    THEN Response(400, "Username and password required", EmptyStr)
    ELSE IF Len(username) > MaxEmailLen \/ Len(password) > MaxPasswordLen
    THEN Response(400, "Invalid input length", EmptyStr)
    ELSE IF ~dbUp THEN Response(500, "Database error occurred", EmptyStr)
    ELSE LET rows == fetchone({r \in users : r.username = username})
         IN  IF rows = {} THEN Response(401, "Invalid credentials", EmptyStr)
             ELSE IF \E r \in rows : verify_password(r.password_hash, password)
             THEN Response(200, "Login successful", token)
             ELSE Response(401, "Invalid credentials", EmptyStr)

\* The handler reaches "with get_db_connection() as conn": the request
\* passed the input checks.
login_connects(username, password) ==
    /\ username # "" /\ password # ""
    /\ Len(username) <= MaxEmailLen /\ Len(password) <= MaxPasswordLen

\* POST /login.  The with block of a sqlite3 connection commits or rolls
\* back on exit and does not close it: the connection stays open until the
\* object is collected.
Login(p, username, password, token) ==
    /\ call[p] = Idle
    /\ conns < MaxConns
    /\ token \in generate_token
    /\ LET r == login(username, password, token)
       IN  /\ ret' = [ret EXCEPT ![p] =
                        [op |-> "login", ok |-> r.status = 200,
                         raised |-> FALSE, again |-> FALSE,
                         username |-> username, response |-> r]]
           /\ drawn' = IF r.status = 200 THEN drawn \cup {token} ELSE drawn
    /\ conns' = IF login_connects(username, password) THEN conns + 1 ELSE conns
    /\ UNCHANGED <<now, dbUp, collide, userVars, sessions, sessSeq, held,
                   revoked, issued, call>>

\* The interpreter collects a connection object nothing refers to, which
\* closes it.
Collect ==
    /\ conns > 0
    /\ conns' = conns - 1
    /\ UNCHANGED <<now, dbUp, collide, sessVars, userVars, call, ret>>

\* An Authorization header: "" when the request has none.
Header(scheme, credentials) == [scheme |-> scheme, credentials |-> credentials]

NoHeader == Header("", "")

\* require_auth: the response that replaces the handler's, or none.
require_auth(auth_token) ==
    IF auth_token = NoHeader
    THEN {Response(401, "Authentication required", EmptyStr)}
    ELSE IF auth_token.scheme # "Bearer "
    THEN {Response(401, "Invalid authentication format", EmptyStr)}
    ELSE {}

\* The response of DELETE /admin/delete/<user_id>.
delete_user(auth_token, user_id) ==
    IF require_auth(auth_token) # {}
    THEN CHOOSE r \in require_auth(auth_token) : TRUE
    ELSE IF ~dbUp THEN Response(500, "Database error occurred", EmptyStr)
    ELSE IF fetchone({r \in users : r.id = user_id}) = {}
    THEN Response(404, "User not found", EmptyStr)
    ELSE Response(200, "User deleted", EmptyStr)

\* DELETE /admin/delete/<user_id>: SELECT, then DELETE FROM users WHERE
\* id = ? and commit.  No statement touches the sessions table, and the
\* connection is left open like the one of login.
DeleteUser(p, auth_token, user_id) ==
    /\ call[p] = Idle
    /\ conns < MaxConns
    /\ LET r == delete_user(auth_token, user_id)
       IN  /\ ret' = [ret EXCEPT ![p] =
                        [op |-> "delete_user", ok |-> r.status = 200,
                         raised |-> FALSE, again |-> FALSE,
                         user_id |-> user_id, response |-> r]]
           /\ users' = IF r.status = 200
                       THEN {q \in users : q.id # user_id} ELSE users
    /\ conns' = IF require_auth(auth_token) = {} THEN conns + 1 ELSE conns
    /\ UNCHANGED <<now, dbUp, collide, sessVars, userSeq, registered, race,
                   call>>

\* What one POST to the email service ends in: a response with its status
\* code and whether it has a Retry-After header, no connection or no
\* response within the timeout, or a connection that fails.
Reply(kind, status, retry_after) ==
    [kind |-> kind, status |-> status, retry_after |-> retry_after]

\* status_forcelist of the retry strategy.
status_forcelist == {429, 500, 502, 503, 504}

\* The status codes for which urllib3 honours a Retry-After header.
RETRY_AFTER_STATUS_CODES == {413, 429, 503}

\* Retry.is_retry for a POST, and Retry.increment for an error: with
\* total=3 and connect, read and status left unset, a connection error and
\* a read timeout count against total like a listed status.
is_retry(reply) ==
    IF reply.kind = "response"
    THEN \/ reply.status \in status_forcelist
         \/ reply.retry_after /\ reply.status \in RETRY_AFTER_STATUS_CODES
    ELSE TRUE

\* re.match of the address pattern on "local@domain.tld", given as
\* <<local, domain, tld>>; <<>> is the empty string.
email_regex_match(recipient) ==
    /\ recipient # <<>>
    /\ recipient[1] # "" /\ recipient[2] # ""
    /\ Len(recipient[3]) >= MinTldLen

\* The checks of send_email that raise ValueError.
send_email_ValueError(recipient, subject, body) ==
    \/ recipient = <<>> \/ subject = "" \/ body = ""
    \/ ~email_regex_match(recipient)

\* What send_email ends in after its last reply: the response's JSON, or
\* the exception it logs and raises again.  Retries that run out end in
\* RetryError for a status, in ConnectTimeout (a Timeout) for a connect
\* timeout and in ConnectionError for a read timeout or a refused connection.
send_email_result(reply) ==
    IF reply.kind = "response"
    THEN IF is_retry(reply) THEN "RetryError"
         ELSE IF reply.status >= 400 THEN "HTTPError"
         ELSE "returned"
    ELSE IF reply.kind = "connect_timeout" THEN "Timeout"
    ELSE "ConnectionError"

\* send_email up to session.post: the checks, the retry strategy, the
\* session.
SendEmail(p, recipient, subject, body) ==
    /\ call[p] = Idle
    /\ IF send_email_ValueError(recipient, subject, body)
       THEN /\ ret' = [ret EXCEPT ![p] =
                         [op |-> "send_email", ok |-> FALSE, raised |-> TRUE,
                          again |-> FALSE, result |-> "ValueError",
                          requests |-> 0, retried |-> {}]]
            /\ UNCHANGED call
       ELSE /\ call' = [call EXCEPT ![p] =
                          [op |-> "send_email", requests |-> 0,
                           retried |-> {}]]
            /\ UNCHANGED ret
    /\ UNCHANGED <<now, envVars, sessVars, userVars>>

\* One request of session.post and what the adapter does with its reply:
\* it sends the request again while the strategy allows, else send_email
\* returns or raises and closes the session.
Post(p, reply) ==
    /\ call[p].op = "send_email"
    /\ LET n == call[p].requests + 1
       IN  IF is_retry(reply) /\ n <= RetryTotal
           THEN /\ call' = [call EXCEPT ![p] =
                              [op |-> "send_email", requests |-> n,
                               retried |-> call[p].retried \cup {reply}]]
                /\ UNCHANGED ret
           ELSE /\ ret' = [ret EXCEPT ![p] =
                             [op |-> "send_email",
                              ok |-> send_email_result(reply) = "returned",
                              raised |-> send_email_result(reply) # "returned",
                              again |-> FALSE,
                              result |-> send_email_result(reply),
                              requests |-> n,
                              retried |-> call[p].retried]]
                /\ call' = [call EXCEPT ![p] = Idle]
    /\ UNCHANGED <<now, envVars, sessVars, userVars>>

\* The storage layer starts or stops raising sqlite3.Error.
Fault ==
    /\ dbUp' = ~dbUp
    /\ UNCHANGED <<now, collide, conns, sessVars, userVars, call, ret>>

-----------------------------------------------------------------------------
(* Clock *)

Tick ==
    /\ now < Epoch + MaxTicks
    /\ now' = now + 1
    /\ UNCHANGED <<envVars, sessVars, userVars, call, ret>>

-----------------------------------------------------------------------------
(* Specifications *)

InitWith(procs, rngRepeats) ==
    /\ now = Epoch
    /\ dbUp = TRUE
    /\ collide = rngRepeats
    /\ conns = 0
    /\ sessions = {}
    /\ users = {}
    /\ sessSeq = 0
    /\ userSeq = 0
    /\ drawn = {}
    /\ held = {}
    /\ call = [p \in procs |-> Idle]
    /\ ret = [p \in procs |-> NoOutcome]
    /\ revoked = {}
    /\ issued = {}
    /\ registered = {}
    /\ race = NoRace

Init == InitWith({1}, FALSE)

Next ==
    \/ Tick
    \/ \E p \in Procs, u \in UserIdArgs, h \in Hours, t \in Tokens :
           Session_create_begin(p, u, h, t)
    \/ \E p \in Procs, id \in 1 .. MaxRowId : Session_create_insert(p, id)
    \/ \E p \in Procs, t \in Tokens \cup {EmptyStr} : Session_find_by_token(p, t)
    \/ \E p \in Procs, s \in held : Session_is_valid(p, s)
    \/ \E p \in Procs, s \in held \cup {NewSession} : Session_revoke(p, s)

\* The session operations, one caller; the random source never repeats.
Spec == Init /\ [][Next]_vars

NextAccounts ==
    \/ Tick
    \/ \E p \in Procs, a \in NewUserArgs, salt \in Salts :
           User_new(p, a[1], a[2], a[3], salt)
    \/ \E p \in Procs, id \in 1 .. MaxRowId : User_save(p, id)
    \/ \E p \in Procs, u \in Usernames : User_find_by_username(p, u)

\* The account operations, one caller.
SpecAccounts == Init /\ [][NextAccounts]_vars

InitRace == InitWith({1, 2}, TRUE)

NextAccountsRace ==
    \/ \E p \in Procs, a \in NewUserArgs, salt \in Salts :
           User_new(p, a[1], a[2], a[3], salt)
    \/ \E p \in Procs, id \in 1 .. MaxRowId : User_save(p, id)

\* Account creation by two callers whose calls interleave.
SpecAccountsRace == InitRace /\ [][NextAccountsRace]_vars

\* The values a repeating random source returns to the two callers.
RepeatedTokens == {<<1>>, <<2>>}

\* (username, email, password_hash) given to the constructor.
InitUserArgs ==
    {<<"carol", "carol@x.com", "Sup3rSecret!">>,
     <<"carol", "carol@x.com", "">>}

NextCredentials ==
    \/ \E p \in Procs, a \in NewUserArgs, salt \in Salts :
           User_new(p, a[1], a[2], a[3], salt)
    \/ \E p \in Procs, a \in InitUserArgs : User_init(p, a[1], a[2], a[3])
    \/ \E p \in Procs, id \in 1 .. MaxRowId : User_save(p, id)
    \/ \E p \in Procs, u \in Accounts, pw \in Passwords, salt \in Salts :
           User_update_password(p, u, pw, salt)
    \/ \E p \in Procs, u \in Accounts, pw \in Passwords :
           User_check_password(p, u, pw)
    \/ \E p \in Procs, a \in UsernameArgs : Call_find_by_username(p, a)
    \/ \E p \in Procs, a \in IdArgs : Call_find_by_id(p, a)

\* The account and password operations, one caller, arguments of any type.
SpecCredentials == Init /\ [][NextCredentials]_vars

\* hash_password(p) with some salt, then verify_password of q against it.
Utils_verify_password(p, pw, candidate, salt) ==
    /\ call[p] = Idle
    /\ ret' = [ret EXCEPT ![p] =
                 [op |-> "verify_password",
                  ok |-> /\ ~hash_password_raises(pw)
                         /\ verify_password(hash_password(pw, salt), candidate),
                  raised |-> hash_password_raises(pw), again |-> FALSE,
                  password |-> pw, candidate |-> candidate, salt |-> salt]]
    /\ UNCHANGED <<now, envVars, sessVars, userVars, call>>

Utils_sanitize_input(p, user_input, max_length) ==
    /\ call[p] = Idle
    /\ ret' = [ret EXCEPT ![p] =
                 [op |-> "sanitize_input", ok |-> TRUE, raised |-> FALSE,
                  again |-> FALSE, user_input |-> user_input,
                  max_length |-> max_length,
                  out |-> sanitize_input(user_input, max_length)]]
    /\ UNCHANGED <<now, envVars, sessVars, userVars, call>>

Utils_generate_token(p, length) ==
    /\ call[p] = Idle
    /\ ret' = [ret EXCEPT ![p] =
                 [op |-> "generate_token", ok |-> TRUE, raised |-> FALSE,
                  again |-> FALSE, length |-> length,
                  nbytes |-> token_nbytes(length)]]
    /\ UNCHANGED <<now, envVars, sessVars, userVars, call>>

MaxInputLen == 3      \* longest text given to sanitize_input

Texts      == UNION {[1 .. n -> Chars] : n \in 0 .. MaxInputLen}
MaxLengths == {-1, 0, 2, 1000}
Lengths    == {-1, 0, 15, 16, 17, 32, 127, 128, 129, 1000}
HashSalts  == {1, 2, 3}
ShortestPassword == "12345678"
LongestPassword  == "qqqqqqqqqqqqqqqqqqqqqqqqqqqqqqqqqqqqqqqqqqqqqqqqqqqqqqqqqqqqqqqqqqqqqqqqqqqqqqqqqqqqqqqqqqqqqqqqqqqqqqqqqqqqqqqqqqqqqqqqqqqqqqqqqqqqqqqqqqqqqqqqqqqqqqqqqqqqqqqqqqqqqqqqqqqqqqqqqqqqqqqqqqqqqqqqqqqqqqqq"   \* 200 characters

NextUtils ==
    \/ \E p \in Procs, salt \in HashSalts :
         \E pw, c \in Passwords \cup {ShortestPassword, LongestPassword} :
           Utils_verify_password(p, pw, c, salt)
    \/ \E p \in Procs, n \in Lengths : Utils_generate_token(p, n)

\* hash_password, verify_password and generate_token applied to arguments.
SpecUtils == Init /\ [][NextUtils]_vars

\* isinstance(v, (str, int, float, bool))
Scalar(v) == v.t \in {"str", "int", "float", "bool"}

\* The whitelist of context fields that may be logged.
safe_fields == {"ip", "user_agent", "action_type", "resource_id", "timestamp"}

\* A context filter that looks at the values only
safe_context_any_key(context) ==
    {e \in context : Scalar(e[2])}

\* The context handed to the logger: the entries <<key, value>> of the
\* caller's context under a whitelisted key with a scalar value.
safe_context(context) ==
    {e \in context : e[1] \in safe_fields /\ Scalar(e[2])}

\* A call of the logger.
LogRecord(level, message, extra) ==
    [level |-> level, message |-> message, extra |-> extra]

\* No extra fields given to the logger.
NoExtra == [user_id |-> PyNone, action |-> "", context |-> {}]

\* The logger calls log_activity makes.
log_activity(user_id, action, context) ==
    IF user_id.t # "int" \/ user_id.v <= 0
    THEN {LogRecord("warning", "Invalid user_id for activity logging", NoExtra)}
    ELSE IF action = "" \/ Len(action) > MaxActionLen
    THEN {LogRecord("warning", "Invalid action for activity logging", NoExtra)}
    ELSE {LogRecord("info", "User activity",
                    [user_id |-> user_id, action |-> action,
                     context |-> safe_context(context)])}

Utils_log_activity(p, user_id, action, context) ==
    /\ call[p] = Idle
    /\ ret' = [ret EXCEPT ![p] =
                 [op |-> "log_activity", ok |-> TRUE, raised |-> FALSE,
                  again |-> FALSE, user_id |-> user_id, action |-> action,
                  context |-> context,
                  logged |-> log_activity(user_id, action, context)]]
    /\ UNCHANGED <<now, envVars, sessVars, userVars, call>>

\* Context entries: whitelisted and other keys, scalar and other values.
ContextEntries ==
    {<<"ip", PyStr("192.168.1.1")>>, <<"ip", [t |-> "list"]>>,
     <<"resource_id", PyInt(7)>>, <<"resource_id", PyNone>>,
     <<"password", PyStr("Sup3rSecret!")>>, <<"token", PyStr("abc")>>,
     <<"hash", PyStr("$argon2id")>>}

\* Context maps: every key has one value; the empty one stands for no
\* context as well.
Contexts ==
    {c \in SUBSET ContextEntries :
        \A e \in c : \A f \in c : e[1] = f[1] => e = f}

UserIds == {PyInt(1), PyInt(0), PyInt(-1), PyStr("1"), PyNone}

Actions == {"", "login", Action100, LongEmail}

NextLogging ==
    \E p \in Procs, u \in UserIds, a \in Actions, c \in Contexts :
        Utils_log_activity(p, u, a, c)

\* log_activity applied to arguments.
SpecLogging == Init /\ [][NextLogging]_vars

NextSanitize ==
    \E p \in Procs, x \in Texts, m \in MaxLengths :
        Utils_sanitize_input(p, x, m)

\* sanitize_input applied to texts and limits.
SpecSanitize == Init /\ [][NextSanitize]_vars

\* A statement as cursor.execute receives it: the query text and the tuple
\* of bound parameters.
Statement(sql, params) == [sql |-> sql, params |-> params]

\* search with the term formatted into the query text
search_statement_interpolated(search_term) ==
    Statement("SELECT id, username, email FROM users WHERE username LIKE '%"
                  \o search_term \o "%'", <<>>)

\* The statement of the search handler: the LIKE patterns are built from the
\* term and bound.
search_statement(search_term) ==
    Statement("SELECT id, username, email FROM users WHERE username LIKE ? OR email LIKE ?",
              <<"%" \o search_term \o "%", "%" \o search_term \o "%">>)

\* The statements of models.py and of the handlers of app.py, for the value
\* v the caller supplies.
StatementOf(op, v) ==
    CASE op = "save" ->
           Statement("INSERT INTO users (username, password_hash, email, created_at) VALUES (?, ?, ?, ?)",
                     <<v, hash_password("Sup3rSecret!", 1), "alice@x.com",
                       adapt_datetime(now)>>)
      [] op = "find_by_username" ->
           Statement("SELECT id, username, password_hash, email, created_at FROM users WHERE username = ?",
                     <<v>>)
      [] op = "find_by_id" ->
           Statement("SELECT id, username, password_hash, email, created_at FROM users WHERE id = ?",
                     <<v>>)
      [] op = "update_password" ->
           Statement("UPDATE users SET password_hash = ? WHERE id = ?",
                     <<hash_password("N3wSecret456!", 1), v>>)
      [] op = "create" ->
           Statement("INSERT INTO sessions (user_id, token, created_at, expires_at) VALUES (?, ?, ?, ?)",
                     <<v, <<1>>, adapt_datetime(now),
                       adapt_datetime(now + timedelta_hours(DefaultHours))>>)
      [] op = "find_by_token" ->
           Statement("SELECT id, user_id, token, created_at, expires_at FROM sessions WHERE token = ? AND expires_at > ?",
                     <<v, adapt_datetime(now)>>)
      [] op = "revoke" ->
           Statement("DELETE FROM sessions WHERE id = ?", <<v>>)
      [] op = "get_user" ->
           Statement("SELECT id, username, email FROM users WHERE id = ?", <<v>>)
      [] op = "login" ->
           Statement("SELECT id, username, password_hash FROM users WHERE username = ?",
                     <<v>>)
      [] op = "search" -> search_statement(v)
      [] op = "delete_user" ->
           Statement("DELETE FROM users WHERE id = ?", <<v>>)

\* Operations whose caller supplies a text, and those whose caller supplies
\* a number.
TextOps   == {"save", "find_by_username", "find_by_token", "login", "search"}
NumberOps == {"find_by_id", "update_password", "create", "revoke", "get_user",
              "delete_user"}

\* Values that pass the checks made before the statement is executed.
TextValues   == {"al", "bob", "a.b-c_d@x"}
NumberValues == {1, 2}

\* cursor.execute of the operation for the caller's value.
Execute(p, op, v) ==
    /\ call[p] = Idle
    /\ ret' = [ret EXCEPT ![p] =
                 [op |-> op, ok |-> TRUE, raised |-> FALSE, again |-> FALSE,
                  value |-> v, statement |-> StatementOf(op, v)]]
    /\ UNCHANGED <<now, envVars, sessVars, userVars, call>>

NextQueries ==
    \/ \E p \in Procs, op \in TextOps, v \in TextValues : Execute(p, op, v)
    \/ \E p \in Procs, op \in NumberOps, v \in NumberValues : Execute(p, op, v)

\* The statements two callers send to storage.
SpecQueries == InitRace /\ [][NextQueries]_vars

\* New passwords of update_password: one valid, one too short.
NewPasswords == {"N3wSecret456!", "short"}

\* (username, password) of login requests.
LoginArgs ==
    {<<"alice", "Sup3rSecret!">>, <<"alice", "N3wSecret456!">>,
     <<"bob", "Sup3rSecret!">>, <<"bob", "N3wSecret456!">>,
     <<"", "Sup3rSecret!">>, <<"alice", "">>,
     <<LongEmail, "Sup3rSecret!">>, <<"alice", LongPassword>>}

\* Accounts that pass the checks of save.
ValidUserArgs ==
    {<<"alice", "alice@x.com", "Sup3rSecret!">>,
     <<"bob",   "bob@x.com",   "Sup3rSecret!">>}

NextLogin ==
    \/ \E p \in Procs, a \in ValidUserArgs, salt \in Salts :
           User_new(p, a[1], a[2], a[3], salt)
    \/ \E p \in Procs, id \in 1 .. MaxRowId : User_save(p, id)
    \/ \E p \in Procs, a \in LoginArgs, t \in Tokens : Login(p, a[1], a[2], t)
    \/ \E p \in Procs, t \in Tokens : Session_find_by_token(p, t)
    \/ Collect

\* Account creation and the login handler, one caller.
SpecLogin == Init /\ [][NextLogin]_vars

\* Authorization headers: none, another scheme, a bearer token.
AuthHeaders == {NoHeader, Header("Basic ", "abc"), Header("Bearer ", "abc")}

NextAdmin ==
    \/ \E p \in Procs, a \in ValidUserArgs, salt \in Salts :
           User_new(p, a[1], a[2], a[3], salt)
    \/ \E p \in Procs, id \in 1 .. MaxRowId : User_save(p, id)
    \/ \E p \in Procs, h \in AuthHeaders, id \in 0 .. MaxRowId :
           DeleteUser(p, h, id)
    \/ \E p \in Procs, u \in 1 .. MaxRowId, t \in Tokens :
           Session_create_begin(p, u, DefaultHours, t)
    \/ \E p \in Procs, id \in 1 .. MaxRowId : Session_create_insert(p, id)
    \/ \E p \in Procs, t \in Tokens : Session_find_by_token(p, t)
    \/ \E p \in Procs, u \in Accounts, pw \in NewPasswords, salt \in Salts :
           User_update_password(p, u, pw, salt)
    \/ Collect

\* Accounts, their sessions and the deletion of accounts, one caller.
SpecAdmin == Init /\ [][NextAdmin]_vars

NextFaults ==
    \/ \E p \in Procs, a \in ValidUserArgs, salt \in Salts :
           User_new(p, a[1], a[2], a[3], salt)
    \/ \E p \in Procs, id \in 1 .. MaxRowId : User_save(p, id)
    \/ \E p \in Procs, u \in Accounts, pw \in Passwords, salt \in Salts :
           User_update_password(p, u, pw, salt)
    \/ \E p \in Procs, u \in Accounts, pw \in Passwords :
           User_check_password(p, u, pw)
    \/ \E p \in Procs, id \in 1 .. MaxRowId : Call_find_by_id(p, PyInt(id))
    \/ Fault

\* The account operations over a storage layer that can fail, one caller.
SpecFaults == Init /\ [][NextFaults]_vars

\* Recipients: a well-formed address, the empty string, no local part, a
\* one-letter top-level domain.
Recipients ==
    {<<"user", "example", "com">>, <<>>, <<"", "example", "com">>,
     <<"user", "example", "c">>}

EmailTexts == {"", "Welcome"}

\* The replies of the email service to one request.
Replies ==
    {Reply("response", st, FALSE) :
         st \in {200, 400, 401, 413, 429, 500, 501, 503}}
      \cup {Reply("response", 413, TRUE), Reply("connect_timeout", 0, FALSE),
            Reply("read_timeout", 0, FALSE), Reply("connection", 0, FALSE)}

NextEmail ==
    \/ \E p \in Procs, r \in Recipients, sub \in EmailTexts, b \in EmailTexts :
           SendEmail(p, r, sub, b)
    \/ \E p \in Procs, reply \in Replies : Post(p, reply)

\* send_email against an email service that answers in any way.
SpecEmail == Init /\ [][NextEmail]_vars

NextSessionsRace ==
    \/ \E p \in Procs, u \in UserIdArgs, t \in RepeatedTokens :
           Session_create_begin(p, u, DefaultHours, t)
    \/ \E p \in Procs, id \in 1 .. MaxRowId : Session_create_insert(p, id)
    \/ \E p \in Procs, s \in held : Session_revoke(p, s)

\* The session operations by two callers whose calls interleave, with a
\* random source that may repeat a token.
SpecSessionsRace == InitRace /\ [][NextSessionsRace]_vars

-----------------------------------------------------------------------------
(* Session claims, one caller *)

\* The record a Session object was created as or read from.
RecordOf(s) == {r \in sessions : r.id = s.id /\ r.token = s.token}

Persisted(x) == RecordOf(x.obj) # {}
Expired(x)   == now >= x.obj.expires_at

\* C1: find_by_token(t) returns a session exactly when t is not empty and a
\* persisted record with token t has expires_at strictly greater than the
\* current time, and then it returns that session; for the empty token, an
\* unknown token or an expired record it returns absent.
C1_FindByTokenIffActive ==
    \A t \in Tokens \cup {EmptyStr} :
        find_by_token(t) =
            {x.obj : x \in {y \in issued : /\ t # EmptyStr
                                           /\ y.obj.token = t
                                           /\ Persisted(y)
                                           /\ y.obj.expires_at > now}}

\* A lookup has just returned a session while another persisted session is
\* expired exactly now and is not returned.
C1_Witness ==
    /\ ret[1].op = "find_by_token" /\ ret[1].ok
    /\ \E x \in issued : /\ Persisted(x) /\ x.obj.expires_at = now
                         /\ find_by_token(x.obj.token) = {}

\* C2: once revoke(s) has returned True, find_by_token(s.token) returns
\* absent in every later state, whatever is executed afterwards.
C2_RevokeIsTerminal == \A s \in revoked : find_by_token(s.token) = {}

\* A session revoked before its expiry, and another session created after.
C2_Witness ==
    \E s \in revoked :
        /\ now < s.expires_at
        /\ \E x \in issued : Persisted(x) /\ x.obj.created_at > s.created_at

\* C3: a second revoke of the same Session object, after the first one
\* succeeded, returns False.
C3_SecondRevokeReturnsFalse ==
    \A p \in Procs : ret[p].op = "revoke" /\ ret[p].again => ~ret[p].ok

\* C4: expiry is one way.  Once the clock has reached the expires_at of a
\* session that create persisted, find_by_token never returns it and is_valid
\* never holds for it again, and no step changes the expires_at of a
\* persisted record.
C4_ExpiryIsOneWay ==
    [][/\ \A x \in issued :
              Expired(x) =>
                  /\ Expired(x)'
                  /\ (find_by_token(x.obj.token) = {})'
                  /\ (\A s \in held : s.token = x.obj.token => ~is_valid(s))'
       /\ \A r \in sessions : \A q \in sessions' :
              q.token = r.token => q.expires_at = r.expires_at
      ]_vars

\* A session created with a positive expiry is still persisted when the
\* clock has reached its expires_at, and a lookup has returned absent.
C4_Witness ==
    /\ ret[1].op = "find_by_token" /\ ~ret[1].ok
    /\ \E x \in issued :
           /\ x.hours > 0 /\ Persisted(x) /\ now >= x.obj.expires_at
           /\ x.obj \in held

\* C5 as claimed: every persisted session record has expires_at strictly
\* later than created_at.
C5_ExpiryStrictlyAfterCreation ==
    \A r \in sessions : fromisoformat(r.expires_at) > fromisoformat(r.created_at)

\* C5 as amended: every session record persisted by create has expires_at
\* equal to created_at plus expiration_hours hours, which is strictly later
\* than created_at exactly when expiration_hours is positive.
C5_ExpiryIsCreationPlusHours ==
    \A x \in issued : \A r \in RecordOf(x.obj) :
        /\ fromisoformat(r.expires_at) =
               fromisoformat(r.created_at) + x.hours * HourTicks
        /\ (fromisoformat(r.expires_at) > fromisoformat(r.created_at))
               <=> (x.hours > 0)

\* Persisted records of a zero and of a non-zero expiration_hours.
C5_Witness ==
    /\ \E x \in issued : Persisted(x) /\ x.hours = 0
    /\ \E x \in issued : Persisted(x) /\ x.hours # 0

\* C7: a session created with expiration_hours = 0 is invalid from its
\* creation on: is_valid is False for it and find_by_token returns absent.
C7_ZeroExpiryNeverValid ==
    \A x \in issued :
        x.hours = 0 =>
            /\ find_by_token(x.obj.token) = {}
            /\ ~is_valid(x.obj)
            /\ \A s \in held : s.token = x.obj.token => ~is_valid(s)

\* The moment of creation of a persisted zero-expiry session.
C7_Witness ==
    \E x \in issued :
        x.hours = 0 /\ Persisted(x) /\ now = x.obj.created_at /\ ret[1].op = "create"

\* C8: revoke(s) removes only the record created as s and leaves every other
\* session record and every account record unchanged; a repeated revoke(s)
\* changes nothing.
C8_RevokeRemovesOnlyItsRecord ==
    [][\A p \in Procs : \A s \in held \cup {NewSession} :
           Session_revoke(p, s) =>
               /\ sessions' = sessions \ RecordOf(s)
               /\ users' = users
      ]_vars

-----------------------------------------------------------------------------
(* Session claims, two callers *)

\* C6: no two persisted session records hold the same token, also when
\* Session.create calls interleave; a create whose token is already persisted
\* persists nothing and returns absent.
C6_TokensUnique ==
    /\ [](\A r \in sessions : \A q \in sessions : r.token = q.token => r = q)
    /\ [][\A p \in Procs : \A id \in 1 .. MaxRowId :
             /\ Session_create_insert(p, id)
             /\ \E r \in sessions : r.token = call[p].token
             => /\ sessions' = sessions
                /\ held' = held
                /\ ~ret'[p].ok
        ]_vars

\* A create has returned absent for a token that another record holds, while
\* two records are persisted.
C6_Witness ==
    /\ Cardinality(sessions) = 2
    /\ \E p \in Procs : ret[p].op = "create" /\ ret[p].again /\ ~ret[p].ok

-----------------------------------------------------------------------------
(* Account claims *)

\* C9: when an account with username u exists, another save with username u
\* fails and persists nothing, and afterwards find_by_username(u) returns the
\* first account with its id, email, password hash and creation time as saved.
C9_DuplicateUsernameFails ==
    [][\A p \in Procs : \A id \in 1 .. MaxRowId :
           /\ User_save(p, id)
           /\ \E r \in users : r.username = call[p].user.username
           => /\ ~ret'[p].ok
              /\ users' = users
              /\ \A u \in registered :
                     u.username = call[p].user.username
                         => (find_by_username(u.username) = {u})'
      ]_vars

\* A save of a taken username, valid otherwise, has returned False.
C9_Witness ==
    /\ ret[1].op = "save" /\ ret[1].again /\ ~ret[1].ok /\ ~ret[1].raised
    /\ \E u \in registered : find_by_username(u.username) = {u}

\* C10: when two saves of one username overlap, the username and both emails
\* being free when they start, exactly one of them returns True and persists
\* its record, the other returns False from the constraint violation, and
\* one record holds the username.
C10_ConcurrentSameUsername ==
    race.free /\ Cardinality(race.res) = 2 =>
        /\ Cardinality({x \in race.res : x.ok}) = 1
        /\ \A x \in race.res : ~x.raised
        /\ Cardinality({r \in users : r.username = race.username}) = 1

\* Both of two overlapping saves of a free username, with different emails,
\* have finished.
C10_Witness ==
    /\ race.free /\ Cardinality(race.res) = 2
    /\ Cardinality(race.emails) = 2

\* C11: save reports a uniqueness violation with an outcome the caller can
\* tell apart from the outcome of every other storage failure: for a valid
\* save in flight whose username or email is taken, what save returns differs
\* from what the same call returns when the storage layer fails.
C11_DuplicateDistinguishable ==
    \A p \in Procs :
        call[p].op = "save" =>
            LET u   == call[p].user
                row == UserRow(u, None_id)
            IN  ~SaveValueError(u) /\ UsersIntegrityError(users, row)
                    => save_result(u, users, row, TRUE)
                           # save_result(u, users, row, FALSE)

\* The username or the email of the User object is outside its bounds.
OutOfBounds(u) ==
    \/ Len(u.username) < 1 \/ Len(u.username) > MaxUsernameLen
    \/ Len(u.email) < 1    \/ Len(u.email) > MaxEmailLen

\* C17: every persisted account has a username of 1 to 50 characters and an
\* email of 1 to 100 characters; a save whose username or email is outside
\* these bounds raises the validation error and persists nothing.
C17_AccountFieldBounds ==
    /\ [](\A r \in users : /\ Len(r.username) \in 1 .. MaxUsernameLen
                            /\ Len(r.email) \in 1 .. MaxEmailLen)
    /\ [][\A p \in Procs : \A id \in 1 .. MaxRowId :
             User_save(p, id) /\ OutOfBounds(call[p].user)
                 => ret'[p].raised /\ ~ret'[p].ok /\ users' = users
        ]_vars

\* A save has raised the validation error while an account is persisted.
C17_Witness ==
    /\ users # {}
    /\ ret[1].op = "save" /\ ret[1].raised
    /\ call[1] = Idle

-----------------------------------------------------------------------------
(* Credential claims *)

\* The password fails validation: empty, shorter than 8 or longer than 200.
InvalidPassword(pw) ==
    pw = "" \/ Len(pw) < MinPasswordLen \/ Len(pw) > MaxPasswordLen

\* C12: update_password returns False without raising, and leaves the
\* persisted password hash of every account unchanged, whenever the account
\* has no assigned id or the new password fails validation.
C12_UpdatePasswordRejects ==
    [][\A p \in Procs : \A u \in Accounts : \A pw \in Passwords :
         \A salt \in Salts :
           /\ User_update_password(p, u, pw, salt)
           /\ u.id = None_id \/ InvalidPassword(pw)
           => /\ ~ret'[p].ok
              /\ ~ret'[p].raised
              /\ users' = users
      ]_vars

\* An update_password has returned False while another account's hash is the
\* one an earlier update_password stored.
C12_Witness ==
    /\ ret[1].op = "update_password" /\ ~ret[1].ok
    /\ \E r \in users : \E salt \in Salts :
           r.password_hash = hash_password("N3wSecret456!", salt)

\* The identifier is malformed: no or an empty username, a username longer
\* than 50 characters, an id that is not a positive integer.
Malformed(op, arg) ==
    IF op = "find_by_username"
    THEN arg.t # "str" \/ arg.v = "" \/ Len(arg.v) > MaxUsernameLen
    ELSE arg.t # "int" \/ arg.v <= 0

\* C13: find_by_username and find_by_id never raise; for a malformed
\* identifier they return absent without sending a query.
C13_LookupsNeverRaise ==
    \A p \in Procs :
        ret[p].op \in {"find_by_username", "find_by_id"} =>
            /\ ~ret[p].raised
            /\ Malformed(ret[p].op, ret[p].arg)
                   => ~ret[p].ok /\ ~ret[p].queried

\* C14: after a successful creation with a valid (username, email,
\* password), find_by_username(username) returns an account with that
\* username and email and a hash that is not the password; check_password on
\* it is True for the creation password and False for every other candidate,
\* and False when the candidate or the stored hash is empty.
C14_CreateThenAuthenticate ==
    [][\A p \in Procs : \A id \in 1 .. MaxRowId :
           /\ User_save(p, id)
           /\ "password" \in DOMAIN call[p]
           /\ ret'[p].ok
           => \A u \in {call[p].user} : \A pw \in {call[p].password} :
                /\ find_by_username(u.username)' # {}
                /\ \A a \in find_by_username(u.username)' :
                     /\ a.username = u.username
                     /\ a.email = u.email
                     /\ a.password_hash # RawHash(pw)
                     /\ \A c \in Passwords : check_password(a, c) <=> (c = pw)
                     /\ ~check_password(a, "")
                     /\ ~check_password([a EXCEPT !.password_hash = EmptyStr], pw)
      ]_vars

\* A created account is found and its creation password checks.
C14_Witness ==
    /\ ret[1].op = "save" /\ ret[1].ok
    /\ \E a \in find_by_username("alice") :
           check_password(a, "Sup3rSecret!") /\ ~check_password(a, "N3wSecret456!")

\* The text is a hash the hasher returns for a password of valid length.
IsHasherOutput(h) ==
    \E pw \in Passwords : \E salt \in Salts :
        ~InvalidPassword(pw) /\ h = hash_password(pw, salt)

\* C16: the password_hash of every persisted account was produced by
\* hash_password from a password of 8 to 200 characters and is not a
\* plaintext password a caller supplied, whatever public account operations
\* (the constructor, set_password, save, update_password) were called.
C16_OnlyHasherOutputPersisted ==
    \A r \in users :
        /\ IsHasherOutput(r.password_hash)
        /\ \A pw \in Passwords : r.password_hash # RawHash(pw)

-----------------------------------------------------------------------------
(* utils.py claims *)

\* C15: for passwords p and q of 8 to 200 characters, verify_password of q
\* against a hash of p is True exactly when p = q, for every salt.
C15_VerifyIffSamePassword ==
    \A p \in Procs :
        /\ ret[p].op = "verify_password"
        /\ ~InvalidPassword(ret[p].password)
        /\ ~InvalidPassword(ret[p].candidate)
        => /\ ~ret[p].raised
           /\ ret[p].ok <=> (ret[p].password = ret[p].candidate)

\* Two different passwords of valid length have been compared under the
\* second salt.
C15_Witness ==
    /\ ret[1].op = "verify_password" /\ ~ret[1].ok
    /\ ret[1].password = LongestPassword /\ ret[1].candidate = ShortestPassword
    /\ ret[1].salt = 2

\* C18: sanitize_input is idempotent for every input and every max_length,
\* also when the input is truncated.
C18_SanitizeIdempotent ==
    \A p \in Procs :
        ret[p].op = "sanitize_input" =>
            sanitize_input(ret[p].out, ret[p].max_length) = ret[p].out

\* C19: generate_token never fails on its length; the number of random bytes
\* drawn is max(16, min(128, length)).
C19_TokenLengthClamped ==
    \A p \in Procs :
        ret[p].op = "generate_token" =>
            /\ ~ret[p].raised
            /\ ret[p].nbytes = Max({16, Min({128, ret[p].length})})

\* A length below the lower limit has been asked for.
C19_Witness ==
    ret[1].op = "generate_token" /\ ret[1].length < 16 /\ ret[1].nbytes = 16

-----------------------------------------------------------------------------
(* Storage statements *)

\* C20: for every storage operation of the core and of the secure handlers
\* the query text is the same for any two caller inputs; the caller's value
\* is among the bound parameters or inside one of them.
C20_QueryTextIndependentOfInput ==
    \A p \in Procs : \A q \in Procs :
        /\ "statement" \in DOMAIN ret[p]
        /\ "statement" \in DOMAIN ret[q]
        /\ ret[p].op = ret[q].op
        => /\ ret[p].statement.sql = ret[q].statement.sql
           /\ ret[p].statement.params # <<>>

\* Two callers have run the search with different terms.
C20_Witness ==
    /\ "statement" \in DOMAIN ret[1] /\ "statement" \in DOMAIN ret[2]
    /\ ret[1].op = "search" /\ ret[2].op = "search"
    /\ ret[1].value # ret[2].value

\* C26 as claimed: for every session object obtained from create or
\* find_by_token, at any later moment, is_valid is true only if find_by_token
\* of its token returns a session, also after the object was revoked.
C26_ValidOnlyIfFindable ==
    \A s \in held : is_valid(s) => find_by_token(s.token) # {}

\* C26 amended: while the record created as s is still persisted, is_valid
\* is true only if find_by_token of its token returns a session.
C26_ValidAndPersistedIsFindable ==
    \A s \in held :
        is_valid(s) /\ RecordOf(s) # {} => find_by_token(s.token) # {}

\* is_valid has answered True for a held session whose record is persisted
\* while another held session has been revoked.
C26_Witness ==
    /\ ret[1].op = "is_valid" /\ ret[1].ok
    /\ \E s \in held : is_valid(s) /\ RecordOf(s) # {}
    /\ \E s \in held : s \in revoked

-----------------------------------------------------------------------------
(* Ownership and password-update claims *)

\* C27: in every reachable state every session find_by_token can return is
\* owned by an existing account: its user_id identifies a persisted account
\* record.
C27_SessionOwnerExists ==
    \A t \in Tokens : \A s \in find_by_token(t) :
        \E r \in users : r.id = s.user_id

\* C28: whenever update_password returns False, for any cause including a
\* storage fault after the new password was hashed, the object's in-memory
\* password_hash is what it was before the call.
C28_FailedUpdateKeepsHash ==
    \A p \in Procs :
        ret[p].op = "update_password" /\ ~ret[p].ok =>
            ret[p].self.password_hash = ret[p].user.password_hash

\* C29: update_password returns True only if the persisted record of the
\* account now holds the hash of the new password: looked up again with
\* find_by_id the account exists, accepts the new password and rejects an
\* old one different from it.
C29_TrueUpdateIsPersisted ==
    [][\A p \in Procs : \A u \in Accounts : \A pw \in NewPasswords :
         \A salt \in Salts :
           User_update_password(p, u, pw, salt) /\ ret'[p].ok
           => (/\ find_by_id(u.id) # {}
               /\ \A a \in find_by_id(u.id) :
                     /\ a.username = u.username
                     /\ check_password(a, pw)
                     /\ \A old \in Passwords :
                            old # pw /\ check_password(u, old)
                            => ~check_password(a, old))'
      ]_vars

-----------------------------------------------------------------------------
(* Email claims *)

\* The replies the claim calls transient: a response with status 429 or 5xx.
TransientResponse(reply) ==
    reply.kind = "response" /\ (reply.status = 429 \/ reply.status >= 500)

\* C24: send_email makes at most 1 + 3 requests, sends a request again only
\* after a response with status 429 or 5xx, never after a validation failure
\* or another 4xx response, and raises before any request when its inputs
\* are invalid.
C24_BoundedRetriesOnTransientOnly ==
    \A p \in Procs :
        /\ call[p].op = "send_email" =>
               /\ call[p].requests <= RetryTotal
               /\ \A reply \in call[p].retried : TransientResponse(reply)
        /\ ret[p].op = "send_email" =>
               /\ ret[p].requests <= 1 + RetryTotal
               /\ \A reply \in ret[p].retried : TransientResponse(reply)
               /\ ret[p].result = "ValueError" => ret[p].requests = 0

-----------------------------------------------------------------------------
(* Logging claims *)

InvalidActivity(user_id, action) ==
    \/ user_id.t # "int" \/ user_id.v <= 0
    \/ action = "" \/ Len(action) > MaxActionLen

\* C25: for every user_id, action and context given to log_activity, the
\* context handed to the logger holds only entries of the caller's context
\* under a whitelisted key with a scalar value, an entry under any other key
\* never reaches the logger, and no activity record is logged when user_id
\* is not a positive integer or action is empty or longer than 100
\* characters.
C25_OnlySafeContextLogged ==
    \A p \in Procs :
        ret[p].op = "log_activity" =>
            /\ \A rec \in ret[p].logged :
                   /\ rec.extra.context \subseteq ret[p].context
                   /\ \A e \in rec.extra.context :
                          /\ e[1] \in safe_fields
                          /\ e[2].t \in {"str", "int", "float", "bool"}
            /\ InvalidActivity(ret[p].user_id, ret[p].action) =>
                   \A rec \in ret[p].logged : rec.level # "info"
            /\ ~InvalidActivity(ret[p].user_id, ret[p].action) =>
                   \E rec \in ret[p].logged :
                       /\ rec.level = "info"
                       /\ rec.extra.user_id = ret[p].user_id
                       /\ rec.extra.action = ret[p].action

\* An activity was logged for a context with an ip and a password: the ip is
\* in the logged context.
C25_Witness ==
    /\ ret[1].op = "log_activity"
    /\ <<"password", PyStr("Sup3rSecret!")>> \in ret[1].context
    /\ <<"ip", PyStr("192.168.1.1")>> \in ret[1].context
    /\ \E rec \in ret[1].logged :
           /\ rec.level = "info"
           /\ <<"ip", PyStr("192.168.1.1")>> \in rec.extra.context

-----------------------------------------------------------------------------
(* Login claims *)

\* C21: after a successful login the token in the response is the token of
\* a session persisted for the authenticated account: find_by_token returns
\* an active session owned by that account.
C21_LoginTokenIsSessionToken ==
    \A p \in Procs :
        ret[p].op = "login" /\ ret[p].response.status = 200 =>
            \E s \in find_by_token(ret[p].response.token) :
                \E r \in users :
                    r.username = ret[p].username /\ s.user_id = r.id

\* C22: the login response does not tell whether a username exists: a
\* well-formed request naming no account and one naming an account with a
\* wrong password get the same status code and body.
C22_LoginHidesExistence ==
    \A a \in LoginArgs : \A b \in LoginArgs : \A t \in Tokens :
        /\ login_connects(a[1], a[2]) /\ login_connects(b[1], b[2])
        /\ ~\E r \in users : r.username = a[1]
        /\ \E r \in users :
              r.username = b[1] /\ ~verify_password(r.password_hash, b[2])
        => login(a[1], a[2], t) = login(b[1], b[2], t)

\* A login with a wrong password for an existing account has been refused
\* while another username names no account.
C22_Witness ==
    /\ ret[1].op = "login" /\ ret[1].response.status = 401
    /\ \E r \in users : r.username = ret[1].username
    /\ \E a \in LoginArgs :
          login_connects(a[1], a[2]) /\ ~\E r \in users : r.username = a[1]

\* C23: every operation that acquires a storage connection has closed it
\* when it finishes, on every exit path: while no operation is running no
\* connection is open.
C23_ConnectionsReleased ==
    (\A p \in Procs : call[p] = Idle) => conns = 0

====
